---- MODULE Spec2Model ----
(***************************************************************************)
(* The call/response protocol of duplex/rpc: the Responder of one call     *)
(* (Return, Continue, Send and the shared respond algorithm), the calling  *)
(* side's Response, and the ReceiveNotify streaming adapter.               *)
(***************************************************************************)
EXTENDS Integers, Sequences, FiniteSets, TLC

\* Items the call's channel may carry from callee to caller.
MaxWire == 4
\* Longest value list a handler passes to Return or Continue.
MaxVals == 2
\* Items the remote side sends on a continued channel that ReceiveNotify drains.
MaxIn == 3
\* Largest capacity of the output channel given to ReceiveNotify.
MaxCap == 1

\* Values each side of a stream sends at most.
MaxPump == 2
\* Bytes of a frame message.
MaxBytes == 2
\* Messages each goroutine encodes.
MaxMsgs == 2

---------------------------------------------------------------------------
\* Values a handler can pass as `any`: nil, a plain value, an error object.

Nil == [k |-> "nil", ty |-> "", s |-> ""]

StrA == [k |-> "str", ty |-> "string", s |-> "a"]

ErrBoom == [k |-> "err", ty |-> "custom", s |-> "boom"]

Values == {Nil, StrA, ErrBoom}

ValueLists == UNION {[1..n -> Values] : n \in 0..MaxVals}

\* values[0].(error): the dynamic type of the value implements error.
IsError(v) == v.k = "err"

\* e.Error(): only the message of the error object.
ErrorString(e) == e.s

\* A *string: nil, or a pointer to a string.
NilStr == [set |-> FALSE, s |-> ""]

StrPtr(str) == [set |-> TRUE, s |-> str]

ResponseHeader == [E |-> NilStr, C |-> FALSE]

\* What is handed to the encoder: a *ResponseHeader or a value.
HdrItem(h) == [t |-> "hdr", h |-> h, v |-> Nil]

ValItem(v) == [t |-> "val", h |-> ResponseHeader, v |-> v]

---------------------------------------------------------------------------
\* The Responder of one call, its channel, and both ends of the call.

VARIABLES responded, header, chState, wire, hch, last,
          cpc, resp, got, inq, hgot

rvars == <<responded, header, chState, wire, hch, last,
           cpc, resp, got, inq, hgot>>

\* ReceiveNotify: its position, the value in hand, its result, the deferred
\* calls still to run, the context, the response's channel (items in flight,
\* whether it has ended, the items taken from it), the output channel (its
\* capacity, its buffer, what the consumer took), and the closes made.
VARIABLES npc, nv, nret, dstack, ctxDone, src, srcEnd, rcv,
          outCap, out, taken, closes

nvars == <<npc, nv, nret, dstack, ctxDone, src, srcEnd, rcv,
           outCap, out, taken, closes>>

\* A handler of the interop service at work on one call: the handler invoked
\* and where it stands, the background goroutine of Stream, the value each of
\* them holds, the parameter and the callback's reply, the callback calls and
\* the Return/Continue calls made, how the receive and the callback call went,
\* what the caller sent on the call's channel and whether it ended, the
\* callback's stream (its state, what the callback sent and whether it ended,
\* what was sent to the callback, the CloseWrite calls) and the closes made
\* by the handler.
VARIABLES hsel, hpc, bpc, hv, bv, params, ret, ncb, nresp, hrecv, hcb,
          cin, cinEnd, sst, sdown, sdownEnd, sup, ncw, hcl

hvars == <<hsel, hpc, bpc, hv, bv, params, ret, ncb, nresp, hrecv, hcb,
           cin, cinEnd, sst, sdown, sdownEnd, sup, ncw, hcl>>

\* A frame Encoder shared by goroutines calling Encode: the holder of its
\* mutex, where each goroutine stands, the message each is at and the bytes
\* of it its Write has written, the result of each goroutine's last Encode,
\* and the bytes the underlying writer has taken.
VARIABLES eholder, epc, emsg, eidx, eerr, ew

evars == <<eholder, epc, emsg, eidx, eerr, ew>>

\* Two peers back to back, each calling the other: where each peer's call
\* stands and what it got, the frames written by each peer and not yet read
\* by the other, the state of the channel each call opened, what has reached
\* the called side and the calling side of it, and where its handler stands.
VARIABLES pcall, pret, pipe, pst, preq, prsp, phandler

pvars == <<pcall, pret, pipe, pst, preq, prsp, phandler>>

\* The groups declared after the service's.
yvars == <<evars, pvars>>

xvars == <<hvars, yvars>>

vars == <<rvars, nvars, xvars>>

\* Encoder(ch).Encode(x): the item is appended to the channel when the
\* channel is open and the transport still takes it (fuel counts the writes
\* the transport accepts during this operation); a failed write on an open
\* channel leaves the transport broken.
Encode(R, x) ==
    IF R.st = "open" /\ R.fuel > 0
    THEN [R EXCEPT !.wire = Append(@, x), !.fuel = @ - 1, !.err = "nil"]
    ELSE [R EXCEPT !.st = IF @ = "open" THEN "broken" ELSE @, !.err = "ESEND"]

\* ch.Close(): the channel is closed for this end whatever the result.
Close(R) ==
    [R EXCEPT !.st = "closed",
              !.err = IF R.st = "open" /\ R.fuel > 0 THEN "nil" ELSE "ECLOSE"]

\* responder.Send
SendOn(R, x) == Encode(R, x)

\* A respond that leaves a single error in the value list.
errorConvention_keep(values) == values

\* respond: a single error is replaced by [nil] ...
errorConvention(values) ==
    IF Len(values) = 1 /\ IsError(values[1]) THEN <<Nil>> ELSE values

\* A respond that does not put the error in the header.
errorHeader_unset(h, values) == h

\* ... and its message is put in the header.
errorHeader(h, values) ==
    IF Len(values) = 1 /\ IsError(values[1])
    THEN [h EXCEPT !.E = StrPtr(ErrorString(values[1]))]
    ELSE h

\* A respond without the substitute for an empty value list.
atLeastOne_asIs(values) == values

\* respond: at least one return value.
atLeastOne(values) ==
    IF Len(values) = 0 THEN <<Nil>> ELSE values

\* A loop that sends the values last to first.
RECURSIVE SendEach_reversed(_, _)
SendEach_reversed(R, values) ==
    IF Len(values) = 0 THEN R
    ELSE LET R1 == SendOn(R, ValItem(values[Len(values)]))
         IN IF R1.err # "nil" THEN R1
            ELSE SendEach_reversed(R1, SubSeq(values, 1, Len(values) - 1))

\* respond: the loop over the values, which returns at the first error.
RECURSIVE SendEach(_, _)
SendEach(R, values) ==
    IF Len(values) = 0 THEN R
    ELSE LET R1 == SendOn(R, ValItem(Head(values)))
         IN IF R1.err # "nil" THEN R1 ELSE SendEach(R1, Tail(values))

\* A respond that never closes, and one that always does.
closeAfter_never(continue_) == FALSE

closeAfter_always(continue_) == TRUE

\* respond: the channel is closed unless the response is continued.
closeAfter(continue_) == ~continue_

\* A respond that sends the header after the values.
respond_headerLast(R, values, continue_) ==
    LET h  == errorHeader([R.header EXCEPT !.C = continue_], values)
        R0 == [R EXCEPT !.responded = TRUE, !.header = h]
        R2 == SendEach(R0, atLeastOne(errorConvention(values)))
    IN IF R2.err # "nil" THEN R2
       ELSE LET R1 == SendOn(R2, HdrItem(h))
            IN IF R1.err # "nil" THEN R1
               ELSE IF closeAfter(continue_) THEN Close(R1) ELSE R1

\* A respond that closes a channel it is not to continue also after a failed
\* send.
respond_closeOnError(R, values, continue_) ==
    LET h  == errorHeader([R.header EXCEPT !.C = continue_], values)
        R0 == [R EXCEPT !.responded = TRUE, !.header = h]
        R1 == SendOn(R0, HdrItem(h))
        R2 == IF R1.err # "nil" THEN R1
              ELSE SendEach(R1, atLeastOne(errorConvention(values)))
    IN IF R2.err # "nil" /\ continue_ THEN R2
       ELSE IF R2.err # "nil" THEN [Close(R2) EXCEPT !.err = R2.err]
       ELSE IF closeAfter(continue_) THEN Close(R2) ELSE R2

\* A respond that marks the responder only once the header is sent.
respond_flagAfterSend(R, values, continue_) ==
    LET h  == errorHeader([R.header EXCEPT !.C = continue_], values)
        R1 == SendOn([R EXCEPT !.header = h], HdrItem(h))
    IN IF R1.err # "nil" THEN R1
       ELSE LET R2 == SendEach([R1 EXCEPT !.responded = TRUE],
                               atLeastOne(errorConvention(values)))
            IN IF R2.err # "nil" THEN R2
               ELSE IF closeAfter(continue_) THEN Close(R2) ELSE R2

respond(R, values, continue_) ==
    LET h  == errorHeader([R.header EXCEPT !.C = continue_], values)
        v1 == errorConvention(values)
        R0 == [R EXCEPT !.responded = TRUE, !.header = h]
        R1 == SendOn(R0, HdrItem(h))
    IN IF R1.err # "nil" THEN R1
       ELSE LET R2 == SendEach(R1, atLeastOne(v1))
            IN IF R2.err # "nil" THEN R2
               ELSE IF closeAfter(continue_) THEN Close(R2) ELSE R2

\* The responder as the operators above take it.
Responder(fuel) ==
    [responded |-> responded, header |-> header, st |-> chState,
     wire |-> wire, fuel |-> fuel, err |-> "nil"]

\* The record of the handler's last Responder operation: its arguments, its
\* result, and the header's error field, the channel and the length of the
\* wire as it found them, and the channel as it left it.
Op(name, values, R) ==
    [op |-> name, vals |-> values, err |-> R.err, base |-> Len(wire),
     E0 |-> header.E, st0 |-> chState, st1 |-> R.st]

NoOp == [op |-> "none", vals |-> <<>>, err |-> "nil", base |-> 0,
         E0 |-> NilStr, st0 |-> "open", st1 |-> "open"]

Fits(n) == chState # "open" \/ Len(wire) + n <= MaxWire

Max(a, b) == IF a >= b THEN a ELSE b

\* The deferred calls of ReceiveNotify, in the order they are registered.
\* The two deferred calls registered in the other order.
Deferred_swapped == <<"resp", "ch">>

Deferred == <<"ch", "resp">>

InitNotify(caps) ==
    /\ npc = "recv"
    /\ nv = "none"
    /\ nret = "none"
    /\ dstack = Deferred
    /\ ctxDone = FALSE
    /\ src = <<>>
    /\ srcEnd = FALSE
    /\ rcv = <<>>
    /\ outCap \in caps
    /\ out = <<>>
    /\ taken = <<>>
    /\ closes = <<>>

InitResponder ==
    /\ responded = FALSE
    /\ header = ResponseHeader
    /\ chState = "open"
    /\ wire = <<>>
    /\ hch = "none"
    /\ last = NoOp
    /\ cpc = "calling"
    /\ resp = [hdr |-> ResponseHeader, replies |-> <<>>, err |-> "nil"]
    /\ got = <<>>
    /\ inq = <<>>
    /\ hgot = <<>>

\* The handlers of the interop service: none at work, or one just invoked.
InitService(sels) ==
    /\ hsel \in sels
    /\ hpc = IF hsel = "none" THEN "idle" ELSE "recv"
    /\ bpc = "off"
    /\ hv = Nil
    /\ bv = Nil
    /\ params = Nil
    /\ ret = Nil
    /\ ncb = 0
    /\ nresp = 0
    /\ hrecv = "none"
    /\ hcb = "none"
    /\ cin = <<>>
    /\ cinEnd = FALSE
    /\ sst = "none"
    /\ sdown = <<>>
    /\ sdownEnd = FALSE
    /\ sup = <<>>
    /\ ncw = 0
    /\ hcl = <<>>

\* The goroutines that call Encode on one Encoder.
Goroutines == {"g1", "g2"}

\* A fresh Encoder (NewEncoder) and no Encode called yet.
InitEncoder ==
    /\ eholder = "none"
    /\ epc = [g \in Goroutines |-> "idle"]
    /\ emsg = [g \in Goroutines |-> 0]
    /\ eidx = [g \in Goroutines |-> 0]
    /\ eerr = [g \in Goroutines |-> "none"]
    /\ ew = <<>>

\* The two peers of the test.
Peers == {"A", "B"}

Other(p) == IF p = "A" THEN "B" ELSE "A"

NoReply == [hdr |-> ResponseHeader, val |-> Nil, err |-> "none"]

\* Two sessions over two pipes, a handler registered at each peer, both
\* Respond loops started, no call made yet.
InitPeers ==
    /\ pcall = [p \in Peers |-> "idle"]
    /\ pret = [p \in Peers |-> NoReply]
    /\ pipe = [p \in Peers |-> <<>>]
    /\ pst = [p \in Peers |-> "none"]
    /\ preq = [p \in Peers |-> <<>>]
    /\ prsp = [p \in Peers |-> <<>>]
    /\ phandler = [p \in Peers |-> "none"]

InitOthers == InitService({"none"}) /\ InitEncoder /\ InitPeers

Init == InitResponder /\ InitNotify({0}) /\ InitOthers

CallerUnchanged == UNCHANGED <<cpc, resp, got, inq, hgot, nvars, xvars>>

\* The writes an operation can make: the transport may fail at any of them.
Fuel(n) == IF chState = "open" THEN 0..n ELSE {0}

\* The value lists a handler passes. A channel that takes no write encodes no
\* value, so one list per branch of the error convention is drawn there.
Lists == IF chState = "open" THEN ValueLists ELSE {<<>>, <<ErrBoom>>}

Sendable == IF chState = "open" THEN Values ELSE {StrA}

Return(values, fuel) ==
    /\ Fits(1 + Max(Len(values), 1))
    /\ LET R == respond(Responder(fuel), values, FALSE)
       IN /\ responded' = R.responded
          /\ header' = R.header
          /\ chState' = R.st
          /\ wire' = R.wire
          /\ last' = Op("Return", values, R)
    /\ UNCHANGED hch
    /\ CallerUnchanged

Continue(values, fuel) ==
    /\ Fits(1 + Max(Len(values), 1))
    /\ LET R == respond(Responder(fuel), values, TRUE)
       IN /\ responded' = R.responded
          /\ header' = R.header
          /\ chState' = R.st
          /\ wire' = R.wire
          /\ last' = Op("Continue", values, R)
    /\ hch' = "ch"
    /\ CallerUnchanged

Send(v, fuel) ==
    /\ Fits(1)
    /\ LET R == SendOn(Responder(fuel), ValItem(v))
       IN /\ chState' = R.st
          /\ wire' = R.wire
          /\ last' = Op("Send", <<v>>, R)
    /\ UNCHANGED <<responded, header, hch>>
    /\ CallerUnchanged

\* ------------------------------------------------------------------------
\* The calling side.

\* Decoding an item into an `any` target.
DecodeAny(x) == IF x.t = "val" THEN x.v ELSE [k |-> "map", ty |-> "", s |-> ""]

DecodeEach(items) == [i \in 1..Len(items) |-> DecodeAny(items[i])]

\* Response.Err
Err(r) == IF r.E = NilStr THEN Nil ELSE [k |-> "err", ty |-> "errorString", s |-> r.E.s]

\* Response.Continue: the accessor of the decoded header.
IsContinue(r) == r.C

\* Items of the wire the caller has consumed.
rpos == IF cpc = "calling" THEN 0 ELSE 1 + Len(resp.replies) + Len(got)

\* Caller.Call with n reply targets, from the first read of the response on:
\* the header is decoded, then one reply per target unless the header carries
\* an error; a channel that is not continued is closed by the caller.
Call(n) ==
    /\ cpc = "calling"
    /\ IF wire = <<>>
       THEN /\ chState # "open"
            /\ resp' = [resp EXCEPT !.err = "EOF"]
            /\ cpc' = "failed"
            /\ UNCHANGED chState
       ELSE IF wire[1].t # "hdr"
       THEN /\ resp' = [resp EXCEPT !.err = "EDECODE"]
            /\ cpc' = "failed"
            /\ UNCHANGED chState
       ELSE LET h == wire[1].h
                avail == Len(wire) - 1
                m == IF h.E.set THEN 0 ELSE IF avail < n THEN avail ELSE n
            IN /\ (h.E.set \/ avail >= n \/ chState # "open")
               /\ resp' = [hdr |-> h,
                           replies |-> DecodeEach(SubSeq(wire, 2, m + 1)),
                           err |-> IF h.E.set THEN "remote"
                                   ELSE IF m < n THEN "EOF" ELSE "nil"]
               /\ cpc' = "returned"
               /\ chState' = IF h.C THEN chState ELSE "closed"
    /\ UNCHANGED <<responded, header, wire, hch, last, got, inq, hgot, nvars, xvars>>

\* Response.Receive on a continued response.
ResponseReceive ==
    /\ cpc = "returned"
    /\ IsContinue(resp.hdr)
    /\ rpos < Len(wire)
    /\ got' = Append(got, DecodeAny(wire[rpos + 1]))
    /\ UNCHANGED <<responded, header, chState, wire, hch, last, cpc, resp, inq, hgot, nvars, xvars>>

\* The values the caller streams, in the order it sends them.
UpValue(i) == IF i % 2 = 1 THEN StrA ELSE Nil

\* Response.Send on a continued response.
ResponseSend ==
    /\ cpc = "returned"
    /\ IsContinue(resp.hdr)
    /\ chState = "open"
    /\ Len(wire) + Len(inq) < MaxWire
    /\ inq' = Encode([st |-> chState, wire |-> inq, fuel |-> 1, err |-> "nil"],
                     ValItem(UpValue(Len(inq) + 1))).wire
    /\ UNCHANGED <<responded, header, chState, wire, hch, last, cpc, resp, got, hgot, nvars, xvars>>

\* Response.Close
ResponseClose ==
    /\ cpc = "returned"
    /\ IsContinue(resp.hdr)
    /\ chState' = "closed"
    /\ cpc' = "closed"
    /\ UNCHANGED <<responded, header, wire, hch, last, resp, got, inq, hgot, nvars, xvars>>

\* Call.Receive: the handler decodes the next value the caller sent.
CallReceive ==
    /\ Len(hgot) < Len(inq)
    /\ hgot' = Append(hgot, DecodeAny(inq[Len(hgot) + 1]))
    /\ UNCHANGED <<responded, header, chState, wire, hch, last, cpc, resp, got, inq, nvars, xvars>>

\* The handler closes the channel Continue handed to it.
HandlerClose ==
    /\ hch # "none"
    /\ chState = "open"
    /\ chState' = Close(Responder(1)).st
    /\ UNCHANGED <<responded, header, wire, hch, last, cpc, resp, got, inq, hgot, nvars, xvars>>

Next ==
    \/ \E values \in Lists : \E fuel \in Fuel(Len(atLeastOne(values)) + 2) :
          Return(values, fuel)
    \/ \E values \in Lists : \E fuel \in Fuel(Len(atLeastOne(values)) + 1) :
          Continue(values, fuel)
    \/ \E v \in Sendable : \E fuel \in Fuel(1) : Send(v, fuel)
    \/ \E n \in 0..MaxVals : Call(n)
    \/ HandlerClose

Spec == Init /\ [][Next]_vars

\* A continued call: the handler answers with Continue and streams with Send,
\* the caller uses the Response it got.
NextStream ==
    \/ \E values \in Lists : \E fuel \in Fuel(Len(atLeastOne(values)) + 1) :
          Continue(values, fuel)
    \/ \E v \in Sendable : \E fuel \in Fuel(1) : Send(v, fuel)
    \/ \E n \in 0..MaxVals : Call(n)
    \/ ResponseReceive
    \/ ResponseSend
    \/ ResponseClose
    \/ CallReceive
    \/ HandlerClose

SpecStream == Init /\ [][NextStream]_vars

---------------------------------------------------------------------------
\* The handlers Unary and Stream of the interop service.

\* What the service's actions leave alone.
svcRest == <<cpc, resp, got, inq, hgot, nvars, yvars>>

\* Values that decode into an `any`.
Plain == {Nil, StrA}

\* A Return or Continue made by a handler on its Responder.
Responds(name, values, continue_, fuel) ==
    LET R == respond(Responder(fuel), values, continue_)
    IN /\ responded' = R.responded
       /\ header' = R.header
       /\ chState' = R.st
       /\ wire' = R.wire
       /\ last' = Op(name, values, R)

\* if err := call.Receive(&params); err != nil { log; return }
afterReceive(ok) == IF ok THEN "call" ELSE "done"

\* A handler that goes on after a failed callback call.
afterCallback_ignoreErr(sel, ok) == IF sel = "Unary" THEN "return" ELSE "continue"

\* if err != nil { log; return } after the callback call.
afterCallback(sel, ok) ==
    IF ~ok THEN "done" ELSE IF sel = "Unary" THEN "return" ELSE "continue"

\* A Stream that does not defer the close of the callback's stream.
StreamDeferred_chOnly == <<"ch">>

\* Stream: defer ch.Close(); defer stream.Close()
StreamDeferred == <<"ch", "stream">>

\* call.Receive(&params)
SvcReceive ==
    /\ hpc = "recv"
    /\ \E ok \in BOOLEAN : \E p \in Plain :
          /\ hrecv' = IF ok THEN "ok" ELSE "err"
          /\ params' = IF ok THEN p ELSE params
          /\ hpc' = afterReceive(ok)
    /\ UNCHANGED <<hsel, bpc, hv, bv, ret, ncb, nresp, hcb, cin, cinEnd,
                   sst, sdown, sdownEnd, sup, ncw, hcl>>
    /\ UNCHANGED <<rvars, nvars, yvars>>

\* call.Caller.Call(ctx, "UnaryCallback" / "StreamCallback", params, &ret):
\* the call fails, or gives the reply and a Response that the callback
\* continued or not.
SvcCallback ==
    /\ hpc = "call"
    /\ ncb' = ncb + 1
    /\ \E ok \in BOOLEAN : \E v \in Plain : \E cont \in BOOLEAN :
          /\ hcb' = IF ok THEN "ok" ELSE "err"
          /\ ret' = IF ok THEN v ELSE ret
          /\ sst' = IF ok /\ hsel = "Stream"
                    THEN (IF cont THEN "open" ELSE "closed")
                    ELSE sst
          /\ hpc' = afterCallback(hsel, ok)
    /\ UNCHANGED <<hsel, bpc, hv, bv, params, nresp, hrecv, cin, cinEnd,
                   sdown, sdownEnd, sup, ncw, hcl>>
    /\ UNCHANGED <<rvars, nvars, yvars>>

\* Unary: if err := resp.Return(ret); err != nil { log }
UnaryReturn ==
    /\ hsel = "Unary"
    /\ hpc = "return"
    /\ \E fuel \in Fuel(3) : Responds("Return", <<ret>>, FALSE, fuel)
    /\ nresp' = nresp + 1
    /\ hpc' = "done"
    /\ UNCHANGED <<hsel, bpc, hv, bv, params, ret, ncb, hrecv, hcb, cin, cinEnd,
                   sst, sdown, sdownEnd, sup, ncw, hcl>>
    /\ UNCHANGED <<hch, svcRest>>

\* Stream: ch, err := resp.Continue(ret); on an error the handler returns, on
\* success the closes are deferred and the background goroutine is started.
StreamContinue ==
    /\ hsel = "Stream"
    /\ hpc = "continue"
    /\ \E fuel \in Fuel(2) : Responds("Continue", <<ret>>, TRUE, fuel)
    /\ hch' = "ch"
    /\ nresp' = nresp + 1
    /\ IF last'.err = "nil"
       THEN hpc' = "pump" /\ bpc' = "recv"
       ELSE hpc' = "done" /\ UNCHANGED bpc
    /\ UNCHANGED <<hsel, hv, bv, params, ret, ncb, hrecv, hcb, cin, cinEnd,
                   sst, sdown, sdownEnd, sup, ncw, hcl>>
    /\ UNCHANGED svcRest

\* Stream, the loop of the handler: stream.Receive(&v) gives the next value
\* of the callback, or fails on a stream that is closed or has ended.
StreamReceive ==
    /\ hpc = "pump"
    /\ sst # "open" \/ sdown # <<>> \/ sdownEnd
    /\ IF sst = "open" /\ sdown # <<>>
       THEN /\ hv' = Head(sdown)
            /\ sdown' = Tail(sdown)
            /\ hpc' = "fwd"
       ELSE /\ hpc' = "defer"
            /\ UNCHANGED <<hv, sdown>>
    /\ UNCHANGED <<hsel, bpc, bv, params, ret, ncb, nresp, hrecv, hcb, cin, cinEnd,
                   sst, sdownEnd, sup, ncw, hcl>>
    /\ UNCHANGED <<rvars, nvars, yvars>>

\* Stream, the loop of the handler: resp.Send(v)
StreamForward ==
    /\ hpc = "fwd"
    /\ \E fuel \in Fuel(1) :
          LET R == SendOn(Responder(fuel), ValItem(hv))
          IN /\ chState' = R.st
             /\ wire' = R.wire
             /\ last' = Op("Send", <<hv>>, R)
             /\ hpc' = IF R.err = "nil" THEN "pump" ELSE "defer"
    /\ UNCHANGED <<hsel, bpc, hv, bv, params, ret, ncb, nresp, hrecv, hcb, cin, cinEnd,
                   sst, sdown, sdownEnd, sup, ncw, hcl>>
    /\ UNCHANGED <<responded, header, hch, svcRest>>

\* Stream returns: the deferred closes run, last registered first.
StreamDeferredCall ==
    /\ hpc = "defer"
    /\ LET d == StreamDeferred[Len(StreamDeferred) - Len(hcl)]
       IN /\ hcl' = Append(hcl, d)
          /\ sst' = IF d = "stream" THEN "closed" ELSE sst
          /\ chState' = IF d = "ch" THEN "closed" ELSE chState
    /\ hpc' = IF Len(hcl) + 1 = Len(StreamDeferred) THEN "done" ELSE "defer"
    /\ UNCHANGED <<hsel, bpc, hv, bv, params, ret, ncb, nresp, hrecv, hcb, cin, cinEnd,
                   sdown, sdownEnd, sup, ncw>>
    /\ UNCHANGED <<responded, header, wire, hch, last, svcRest>>

\* Stream, the background goroutine: call.Receive(&v) gives the next value of
\* the caller, or fails on a channel that is closed, broken or has ended.
PumpReceive ==
    /\ bpc = "recv"
    /\ chState # "open" \/ cin # <<>> \/ cinEnd
    /\ IF chState = "open" /\ cin # <<>>
       THEN /\ bv' = Head(cin)
            /\ cin' = Tail(cin)
            /\ bpc' = "send"
       ELSE /\ bpc' = "closewrite"
            /\ UNCHANGED <<bv, cin>>
    /\ UNCHANGED <<hsel, hpc, hv, params, ret, ncb, nresp, hrecv, hcb, cinEnd,
                   sst, sdown, sdownEnd, sup, ncw, hcl>>
    /\ UNCHANGED <<rvars, nvars, yvars>>

\* Stream, the background goroutine: stream.Send(v)
PumpSend ==
    /\ bpc = "send"
    /\ IF sst = "open"
       THEN /\ sup' = Append(sup, bv)
            /\ bpc' = "recv"
       ELSE /\ bpc' = "closewrite"
            /\ UNCHANGED sup
    /\ UNCHANGED <<hsel, hpc, hv, bv, params, ret, ncb, nresp, hrecv, hcb, cin, cinEnd,
                   sst, sdown, sdownEnd, ncw, hcl>>
    /\ UNCHANGED <<rvars, nvars, yvars>>

\* Stream, the background goroutine: stream.CloseWrite() after its loop.
PumpCloseWrite ==
    /\ bpc = "closewrite"
    /\ ncw' = ncw + 1
    /\ bpc' = "done"
    /\ UNCHANGED <<hsel, hpc, hv, bv, params, ret, ncb, nresp, hrecv, hcb, cin, cinEnd,
                   sst, sdown, sdownEnd, sup, hcl>>
    /\ UNCHANGED <<rvars, nvars, yvars>>

\* The caller of Stream sends a value on the call's channel, or ends its
\* side of it.
CallerSend ==
    /\ hsel = "Stream"
    /\ chState = "open"
    /\ ~cinEnd
    /\ Len(cin) + Len(sup) + (IF bpc = "send" THEN 1 ELSE 0) < MaxPump
    /\ cin' = Append(cin, StrA)
    /\ UNCHANGED <<hsel, hpc, bpc, hv, bv, params, ret, ncb, nresp, hrecv, hcb, cinEnd,
                   sst, sdown, sdownEnd, sup, ncw, hcl>>
    /\ UNCHANGED <<rvars, nvars, yvars>>

CallerEnd ==
    /\ hsel = "Stream"
    /\ chState = "open"
    /\ ~cinEnd
    /\ cinEnd' = TRUE
    /\ UNCHANGED <<hsel, hpc, bpc, hv, bv, params, ret, ncb, nresp, hrecv, hcb, cin,
                   sst, sdown, sdownEnd, sup, ncw, hcl>>
    /\ UNCHANGED <<rvars, nvars, yvars>>

\* The callback sends a value on its stream, ends its side of it, or closes
\* it.
CallbackSend ==
    /\ sst = "open"
    /\ ~sdownEnd
    /\ Len(sdown) + Max(Len(wire) - 2, 0) + (IF hpc = "fwd" THEN 1 ELSE 0) < MaxPump
    /\ sdown' = Append(sdown, StrA)
    /\ UNCHANGED <<hsel, hpc, bpc, hv, bv, params, ret, ncb, nresp, hrecv, hcb, cin, cinEnd,
                   sst, sdownEnd, sup, ncw, hcl>>
    /\ UNCHANGED <<rvars, nvars, yvars>>

CallbackEnd ==
    /\ sst = "open"
    /\ ~sdownEnd
    /\ sdownEnd' = TRUE
    /\ UNCHANGED <<hsel, hpc, bpc, hv, bv, params, ret, ncb, nresp, hrecv, hcb, cin, cinEnd,
                   sst, sdown, sup, ncw, hcl>>
    /\ UNCHANGED <<rvars, nvars, yvars>>

CallbackClose ==
    /\ sst = "open"
    /\ hcl = <<>>
    /\ sst' = "closed"
    /\ UNCHANGED <<hsel, hpc, bpc, hv, bv, params, ret, ncb, nresp, hrecv, hcb, cin, cinEnd,
                   sdown, sdownEnd, sup, ncw, hcl>>
    /\ UNCHANGED <<rvars, nvars, yvars>>

NextService ==
    \/ SvcReceive
    \/ SvcCallback
    \/ UnaryReturn
    \/ StreamContinue
    \/ StreamReceive
    \/ StreamForward
    \/ StreamDeferredCall
    \/ PumpReceive
    \/ PumpSend
    \/ PumpCloseWrite
    \/ CallerSend
    \/ CallerEnd
    \/ CallbackSend
    \/ CallbackEnd
    \/ CallbackClose

InitSvc ==
    InitResponder /\ InitNotify({0}) /\ InitService({"Unary", "Stream"}) /\ InitEncoder /\ InitPeers

\* The handler and its background goroutine are scheduled whenever they can
\* step; the caller and the callback owe nothing.
SpecSvc ==
    /\ InitSvc
    /\ [][NextService]_vars
    /\ WF_vars(SvcReceive)
    /\ WF_vars(SvcCallback)
    /\ WF_vars(UnaryReturn)
    /\ WF_vars(StreamContinue)
    /\ WF_vars(StreamReceive)
    /\ WF_vars(StreamForward)
    /\ WF_vars(StreamDeferredCall)
    /\ WF_vars(PumpReceive)
    /\ WF_vars(PumpSend)
    /\ WF_vars(PumpCloseWrite)

---------------------------------------------------------------------------
\* frame.Encoder: Encode called by several goroutines on one Encoder.

\* What the Encoder's actions leave alone.
encRest == <<rvars, nvars, hvars, pvars>>

\* A mutex that never blocks.
lockFree_always(holder) == TRUE

\* sync.Mutex: Lock goes through when nobody holds the mutex.
lockFree(holder) == holder = "none"

\* A byte of message m of goroutine g, as msg.Bytes() gives it.
Byte(g, m, i) == [g |-> g, m |-> m, i |-> i]

InCritical(g) == epc[g] \in {"write", "debug", "unlock"}

\* enc.Lock(); defer enc.Unlock()
EncLock(g) ==
    /\ epc[g] = "idle"
    /\ emsg[g] < MaxMsgs
    /\ lockFree(eholder)
    /\ eholder' = g
    /\ epc' = [epc EXCEPT ![g] = "write"]
    /\ emsg' = [emsg EXCEPT ![g] = @ + 1]
    /\ eidx' = [eidx EXCEPT ![g] = 0]
    /\ UNCHANGED <<eerr, ew, encRest>>

\* enc.w.Write(msg.Bytes()): the writer takes the next byte; the Write returns
\* nil after the last one.
EncWriteByte(g) ==
    /\ epc[g] = "write"
    /\ ew' = Append(ew, Byte(g, emsg[g], eidx[g] + 1))
    /\ eidx' = [eidx EXCEPT ![g] = @ + 1]
    /\ IF eidx[g] + 1 = MaxBytes
       THEN /\ eerr' = [eerr EXCEPT ![g] = "nil"]
            /\ epc' = [epc EXCEPT ![g] = "debug"]
       ELSE UNCHANGED <<eerr, epc>>
    /\ UNCHANGED <<eholder, emsg, encRest>>

\* enc.w.Write(msg.Bytes()): the writer fails with bytes left to write.
EncWriteFail(g) ==
    /\ epc[g] = "write"
    /\ eerr' = [eerr EXCEPT ![g] = "EWRITE"]
    /\ epc' = [epc EXCEPT ![g] = "debug"]
    /\ UNCHANGED <<eholder, emsg, eidx, ew, encRest>>

\* if Debug != nil { fmt.Fprintln(Debug, "<<ENC", msg) }
EncDebug(g) ==
    /\ epc[g] = "debug"
    /\ epc' = [epc EXCEPT ![g] = "unlock"]
    /\ UNCHANGED <<eholder, emsg, eidx, eerr, ew, encRest>>

\* return err: the deferred enc.Unlock() runs.
EncUnlock(g) ==
    /\ epc[g] = "unlock"
    /\ eholder' = "none"
    /\ epc' = [epc EXCEPT ![g] = "idle"]
    /\ UNCHANGED <<emsg, eidx, eerr, ew, encRest>>

NextEncoder ==
    \E g \in Goroutines :
        \/ EncLock(g)
        \/ EncWriteByte(g)
        \/ EncWriteFail(g)
        \/ EncDebug(g)
        \/ EncUnlock(g)

InitEnc ==
    InitResponder /\ InitNotify({0}) /\ InitService({"none"}) /\ InitEncoder /\ InitPeers

SpecEnc == InitEnc /\ [][NextEncoder]_vars

---------------------------------------------------------------------------
\* TestPeerBidirectional: peers A and B over one connection, each with a
\* handler for "hello", each calling "hello" on the other. A call is named
\* after the peer that makes it, and so is the channel it opens.

\* What the peers' actions leave alone.
peerRest == <<rvars, nvars, hvars, evars>>

Str(str) == [k |-> "str", ty |-> "string", s |-> str]

\* CallHeader{S: selector} as an item of a channel.
CallItem(selector) == [t |-> "call", h |-> ResponseHeader, v |-> Str(selector)]

\* A frame of the session: an item of one channel.
Frame(c, x) == [ch |-> c, item |-> x]

Frames(c, items) == [i \in 1..Len(items) |-> Frame(c, items[i])]

\* Handlers that all return "A".
HandlerValue_same(p) == Str("A")

\* peerA.Handle("hello", ... r.Return("A")); peerB.Handle("hello", ...
\* r.Return("B"))
HandlerValue(p) == Str(p)

\* The responder the peer hands to the handler of a call: fresh, on the
\* call's channel, over pipes that take every write.
PeerResponder == [responded |-> FALSE, header |-> ResponseHeader, st |-> "open",
                  wire |-> <<>>, fuel |-> 3, err |-> "nil"]

\* peer.Call(ctx, "hello", nil, &ret): a channel is opened and the CallHeader
\* and the parameter are written on it.
PeerCall(p) ==
    /\ pcall[p] = "idle"
    /\ pcall' = [pcall EXCEPT ![p] = "waiting"]
    /\ pst' = [pst EXCEPT ![p] = "open"]
    /\ pipe' = [pipe EXCEPT ![p] = @ \o Frames(p, <<CallItem("hello"), ValItem(Nil)>>)]
    /\ UNCHANGED <<pret, preq, prsp, phandler, peerRest>>

\* The session of the peer at the other end of p's pipe reads the next frame
\* and hands it to the channel it belongs to: the called side of the channel
\* p opened, or the calling side of the channel the reader opened.
PeerDeliver(p) ==
    /\ pipe[p] # <<>>
    /\ pipe' = [pipe EXCEPT ![p] = Tail(@)]
    /\ LET f == Head(pipe[p])
       IN IF f.ch = p
          THEN /\ preq' = [preq EXCEPT ![p] = Append(@, f.item)]
               /\ UNCHANGED prsp
          ELSE /\ prsp' = [prsp EXCEPT ![f.ch] = Append(@, f.item)]
               /\ UNCHANGED preq
    /\ UNCHANGED <<pcall, pret, pst, phandler, peerRest>>

\* peer.Respond: the channel of call c is accepted, its CallHeader decoded
\* and the handler registered for the selector invoked.
PeerAccept(c) ==
    /\ phandler[c] = "none"
    /\ preq[c] # <<>>
    /\ preq[c][1] = CallItem("hello")
    /\ phandler' = [phandler EXCEPT ![c] = "running"]
    /\ UNCHANGED <<pcall, pret, pipe, pst, preq, prsp, peerRest>>

\* The handler of the called peer: r.Return("A") / r.Return("B")
PeerHandle(c) ==
    /\ phandler[c] = "running"
    /\ LET R == respond(PeerResponder, <<HandlerValue(Other(c))>>, FALSE)
       IN /\ pipe' = [pipe EXCEPT ![Other(c)] = @ \o Frames(c, R.wire)]
          /\ pst' = [pst EXCEPT ![c] = R.st]
    /\ phandler' = [phandler EXCEPT ![c] = "returned"]
    /\ UNCHANGED <<pcall, pret, preq, prsp, peerRest>>

\* peer.Call, once the response has arrived: the header is decoded, then the
\* reply into &ret.
PeerReply(c) ==
    /\ pcall[c] = "waiting"
    /\ Len(prsp[c]) >= 2
    /\ pcall' = [pcall EXCEPT ![c] = "done"]
    /\ pret' = [pret EXCEPT ![c] =
                  IF prsp[c][1].t # "hdr"
                  THEN [NoReply EXCEPT !.err = "EDECODE"]
                  ELSE [hdr |-> prsp[c][1].h, val |-> DecodeAny(prsp[c][2]), err |-> "nil"]]
    /\ UNCHANGED <<pipe, pst, preq, prsp, phandler, peerRest>>

NextPeers ==
    \E p \in Peers :
        \/ PeerCall(p)
        \/ PeerDeliver(p)
        \/ PeerAccept(p)
        \/ PeerHandle(p)
        \/ PeerReply(p)

InitPeer ==
    InitResponder /\ InitNotify({0}) /\ InitService({"none"}) /\ InitEncoder /\ InitPeers

SpecPeer == InitPeer /\ [][NextPeers]_vars

---------------------------------------------------------------------------
\* ReceiveNotify(ctx, resp, ch) on a continued response.

\* What the remote side can put on the channel: values that convert to the
\* element type T, a value of another shape, and bytes the codec rejects.
Good == {"x", "y"}

Mismatch == "mismatch"

Junk == "junk"

Items == Good \cup {Mismatch, Junk}

\* resp.Receive(&v): the codec's error on bytes it cannot decode.
ReceiveOk(x) == x # Junk

\* mapstructure.Decode(v, &vv): the value as a T, or an error.
ConvertOk(v) == v \in Good

Convert(v) == [T |-> v]

\* A select that returns the context's error, and one without the Done case.
selectCase_err(done) ==
    IF done THEN [to |-> "return", ret |-> "ECANCEL"] ELSE [to |-> "send", ret |-> "none"]

selectCase_ignore(done) == [to |-> "send", ret |-> "none"]

\* The select: the ctx.Done() case when the context is done, else default.
selectCase(done) ==
    IF done THEN [to |-> "return", ret |-> "nil"] ELSE [to |-> "send", ret |-> "none"]

\* A return statement: the result is set and the deferred calls run.
ReturnWith(e) ==
    /\ nret' = e
    /\ npc' = "defer"

\* A receive that a cancellation of the context wakes up.
NotifyReceive_ctx ==
    /\ npc = "recv"
    /\ src # <<>> \/ srcEnd \/ ctxDone
    /\ IF src = <<>>
       THEN /\ ReturnWith(IF srcEnd THEN "EOF" ELSE "nil")
            /\ UNCHANGED <<nv, src, rcv>>
       ELSE /\ src' = Tail(src)
            /\ rcv' = Append(rcv, Head(src))
            /\ IF ReceiveOk(Head(src))
               THEN /\ nv' = Head(src)
                    /\ npc' = "conv"
                    /\ UNCHANGED nret
               ELSE /\ ReturnWith("EDECODE")
                    /\ UNCHANGED nv
    /\ UNCHANGED <<dstack, ctxDone, srcEnd, outCap, out, taken, closes, rvars, xvars>>

\* resp.Receive(&v) completes: with a value, a decode error, or the end of the
\* channel.
NotifyReceive ==
    /\ npc = "recv"
    /\ src # <<>> \/ srcEnd
    /\ IF src = <<>>
       THEN /\ ReturnWith("EOF")
            /\ UNCHANGED <<nv, src, rcv>>
       ELSE /\ src' = Tail(src)
            /\ rcv' = Append(rcv, Head(src))
            /\ IF ReceiveOk(Head(src))
               THEN /\ nv' = Head(src)
                    /\ npc' = "conv"
                    /\ UNCHANGED nret
               ELSE /\ ReturnWith("EDECODE")
                    /\ UNCHANGED nv
    /\ UNCHANGED <<dstack, ctxDone, srcEnd, outCap, out, taken, closes, rvars, xvars>>

\* mapstructure.Decode(v, &vv)
NotifyConvert ==
    /\ npc = "conv"
    /\ IF ConvertOk(nv)
       THEN /\ npc' = "select"
            /\ UNCHANGED nret
       ELSE ReturnWith("ECONV")
    /\ UNCHANGED <<nv, dstack, ctxDone, src, srcEnd, rcv, outCap, out, taken, closes, rvars, xvars>>

\* select { case <-ctx.Done(): return nil; default: ... }
NotifySelect ==
    /\ npc = "select"
    /\ LET c == selectCase(ctxDone)
       IN IF c.to = "return"
          THEN ReturnWith(c.ret)
          ELSE /\ npc' = "send"
               /\ UNCHANGED nret
    /\ UNCHANGED <<nv, dstack, ctxDone, src, srcEnd, rcv, outCap, out, taken, closes, rvars, xvars>>

\* ch <- vv into the buffer of the output channel.
NotifySend ==
    /\ npc = "send"
    /\ Len(out) < outCap
    /\ out' = Append(out, Convert(nv))
    /\ npc' = "recv"
    /\ UNCHANGED <<nv, nret, dstack, ctxDone, src, srcEnd, rcv, outCap, taken, closes, rvars, xvars>>

\* ch <- vv handed to a consumer that is receiving.
NotifyHandOff ==
    /\ npc = "send"
    /\ out = <<>>
    /\ taken' = Append(taken, Convert(nv))
    /\ npc' = "recv"
    /\ UNCHANGED <<nv, nret, dstack, ctxDone, src, srcEnd, rcv, outCap, out, closes, rvars, xvars>>

\* The deferred calls, last registered first: resp.Close(), then close(ch).
NotifyDeferred ==
    /\ npc = "defer"
    /\ IF dstack = <<>>
       THEN /\ npc' = "done"
            /\ UNCHANGED <<dstack, closes>>
       ELSE /\ closes' = Append(closes, dstack[Len(dstack)])
            /\ dstack' = SubSeq(dstack, 1, Len(dstack) - 1)
            /\ UNCHANGED npc
    /\ UNCHANGED <<nv, nret, ctxDone, src, srcEnd, rcv, outCap, out, taken, rvars, xvars>>

\* The other side of the channel sends an item, or the channel ends.
RemoteSend(x) ==
    /\ ~srcEnd
    /\ closes = <<>>
    /\ Len(rcv) + Len(src) < MaxIn
    /\ src' = Append(src, x)
    /\ UNCHANGED <<npc, nv, nret, dstack, ctxDone, srcEnd, rcv, outCap, out, taken, closes, rvars, xvars>>

RemoteEnd ==
    /\ ~srcEnd
    /\ srcEnd' = TRUE
    /\ UNCHANGED <<npc, nv, nret, dstack, ctxDone, src, rcv, outCap, out, taken, closes, rvars, xvars>>

\* The context given to ReceiveNotify is cancelled.
Cancel ==
    /\ ~ctxDone
    /\ ctxDone' = TRUE
    /\ UNCHANGED <<npc, nv, nret, dstack, src, srcEnd, rcv, outCap, out, taken, closes, rvars, xvars>>

\* The consumer of the output channel takes the next buffered element.
Consume ==
    /\ out # <<>>
    /\ taken' = Append(taken, Head(out))
    /\ out' = Tail(out)
    /\ UNCHANGED <<npc, nv, nret, dstack, ctxDone, src, srcEnd, rcv, outCap, closes, rvars, xvars>>

NextNotify ==
    \/ NotifyReceive
    \/ NotifyConvert
    \/ NotifySelect
    \/ NotifySend
    \/ NotifyHandOff
    \/ NotifyDeferred
    \/ \E x \in Items : RemoteSend(x)
    \/ RemoteEnd
    \/ Cancel
    \/ Consume

InitRN == InitResponder /\ InitNotify(0..MaxCap) /\ InitOthers

\* The goroutine running ReceiveNotify is scheduled whenever it can step; the
\* remote side, the context and the consumer owe nothing.
SpecRN ==
    /\ InitRN
    /\ [][NextNotify]_vars
    /\ WF_vars(NotifyReceive)
    /\ WF_vars(NotifyConvert)
    /\ WF_vars(NotifySelect)
    /\ WF_vars(NotifySend)
    /\ WF_vars(NotifyDeferred)

---------------------------------------------------------------------------
\* Properties of the Responder and of the calling side.

Headers(w) == Cardinality({i \in 1..Len(w) : w[i].t = "hdr"})

\* What the handler's last Responder operation wrote on the channel.
Written == SubSeq(wire, last.base + 1, Len(wire))

ValItems(values) == [i \in 1..Len(values) |-> ValItem(values[i])]

IsRespond == last.op \in {"Return", "Continue"}

SingleError == Len(last.vals) = 1 /\ IsError(last.vals[1])

\* The sends of the last operation all succeeded (a close may have failed).
SendsSucceeded == last.err \in {"nil", "ECLOSE"}

\* C1: the channel of a call never carries a second ResponseHeader, whatever
\* Return and Continue invocations the handler makes.
C1_OneHeader == Headers(wire) <= 1

\* C2 as stated: the first item on the channel is the ResponseHeader in every
\* sequence of Send, Return and Continue.
C2_HeaderFirst == wire # <<>> => wire[1].t = "hdr"

\* C2 amended: every Return/Continue writes its header before its values and
\* writes no value before it; the first item of the channel is a header
\* exactly when the first write is made by Return/Continue and not by Send.
C2_HeaderBeforeValues ==
    /\ (IsRespond /\ Written # <<>>) =>
          /\ Written[1].t = "hdr"
          /\ \A i \in 2..Len(Written) : Written[i].t = "val"
    /\ (last.base = 0 /\ wire # <<>>) => (wire[1].t = "hdr" <=> IsRespond)

C2_Witness ==
    /\ last.op = "Continue"
    /\ last.base = 0
    /\ Len(wire) = 3
    /\ wire[1].t = "hdr"
    /\ wire[3].t = "val"

\* C3: a Return whose sends succeed writes exactly one header, with continue
\* unset, followed by at least one reply value, the single value null when
\* the value list is empty; the caller of such a call reads that header
\* first and the replies after it.
C3_OneHeaderAtLeastOneReply ==
    (last.op = "Return" /\ SendsSucceeded) =>
        /\ Len(Written) >= 2
        /\ Written[1].t = "hdr"
        /\ ~Written[1].h.C
        /\ \A i \in 2..Len(Written) : Written[i].t = "val"
        /\ last.vals = <<>> => Tail(Written) = <<ValItem(Nil)>>
        /\ (last.base = 0 /\ cpc = "returned") =>
              /\ Headers(wire) = 1
              /\ resp.hdr = wire[1].h
              /\ ~IsContinue(resp.hdr)
              /\ Len(resp.replies) <= Len(wire) - 1
              /\ \A i \in 1..Len(resp.replies) :
                    resp.replies[i] = DecodeAny(wire[i + 1])
              /\ (last.vals = <<>> /\ resp.replies # <<>>) => resp.replies = <<Nil>>

C3_Witness ==
    /\ last.op = "Return"
    /\ last.vals = <<>>
    /\ last.err = "nil"
    /\ cpc = "returned"
    /\ resp.replies = <<Nil>>

\* C4: a value list that is exactly one error object puts the error's
\* message in the header's error field and writes null as the only reply
\* value; the caller's Response.Err() is then a non-nil error with that
\* message, and Response.Err() is nil when the error field is unset.
C4_ErrorInHeader ==
    /\ (IsRespond /\ SingleError) =>
          /\ header.E = StrPtr(ErrorString(last.vals[1]))
          /\ Written # <<>> => Written[1] = HdrItem(header)
          /\ Len(Written) <= 2
          /\ Len(Written) = 2 => Written[2] = ValItem(Nil)
          /\ (last.base = 0 /\ cpc = "returned") =>
                /\ Err(resp.hdr) # Nil
                /\ IsError(Err(resp.hdr))
                /\ ErrorString(Err(resp.hdr)) = ErrorString(last.vals[1])
    /\ (cpc = "returned" /\ resp.hdr.E = NilStr) => Err(resp.hdr) = Nil

C4_Witness ==
    /\ last.op = "Return"
    /\ last.vals = <<ErrBoom>>
    /\ last.err = "nil"
    /\ cpc = "returned"
    /\ Err(resp.hdr) = [k |-> "err", ty |-> "errorString", s |-> "boom"]
    /\ wire = <<HdrItem([E |-> StrPtr("boom"), C |-> FALSE]), ValItem(Nil)>>

\* C5 as stated: whatever the length of the value list and the position of
\* an error in it, no error object is written as a reply value, and the
\* header's error field is set iff the list holds an error object.
C5_NoErrorPayload ==
    (IsRespond /\ Written # <<>>) =>
        /\ \A i \in 1..Len(Written) : ~(Written[i].t = "val" /\ IsError(Written[i].v))
        /\ Written[1].h.E.set <=> (\E i \in 1..Len(last.vals) : IsError(last.vals[i]))

\* C5 amended: only a value list that is exactly one error object is kept off
\* the payload (null is written for it and the error field is set to its
\* message); any other list is written as it is, error objects included, and
\* leaves the error field as the call found it, so the first header of a
\* call has its error field set iff the list is exactly one error object.
C5_SingleErrorOnly ==
    (IsRespond /\ Written # <<>>) =>
        /\ Written[1].t = "hdr"
        /\ SingleError =>
              /\ Written[1].h.E = StrPtr(ErrorString(last.vals[1]))
              /\ \A i \in 2..Len(Written) : ~IsError(Written[i].v)
        /\ ~SingleError =>
              /\ Written[1].h.E = last.E0
              /\ \A i \in 2..Len(Written) :
                    Written[i] = ValItem(atLeastOne(last.vals)[i - 1])
        /\ last.E0 = NilStr => (Written[1].h.E.set <=> SingleError)

C5_Witness ==
    /\ last.op = "Return"
    /\ last.vals = <<StrA, ErrBoom>>
    /\ last.err = "nil"
    /\ Written = <<HdrItem([E |-> NilStr, C |-> FALSE]), ValItem(StrA), ValItem(ErrBoom)>>

\* C6: a Return whose sends succeed has written the header and every reply
\* value and leaves the channel closed; an operation that finds the channel
\* closed returns an error, writes nothing and leaves it closed.
C6_ClosedAfterReturn ==
    /\ (last.op = "Return" /\ SendsSucceeded) =>
          /\ last.st1 = "closed"
          /\ chState = "closed"
          /\ Len(Written) = 1 + Len(atLeastOne(last.vals))
    /\ last.st0 = "closed" =>
          /\ last.err # "nil"
          /\ Written = <<>>
          /\ chState = "closed"

C6_Witness ==
    /\ last.op = "Send"
    /\ last.st0 = "closed"
    /\ last.err = "ESEND"
    /\ cpc = "calling"
    /\ hch = "none"
    /\ Len(wire) = 2
    /\ ~wire[1].h.C

\* C10: a Return of two or more values whose sends succeed writes the header
\* and then the values in the order given, each once; a caller with as many
\* reply targets gets the values in that order.
C10_MultiValueOrder ==
    (last.op = "Return" /\ Len(last.vals) >= 2 /\ SendsSucceeded) =>
        /\ Written = <<HdrItem(header)>> \o ValItems(last.vals)
        /\ (/\ last.base = 0
            /\ cpc = "returned"
            /\ resp.err = "nil"
            /\ Len(resp.replies) = Len(last.vals)
            /\ \A i \in 1..Len(last.vals) : ~IsError(last.vals[i]))
           => resp.replies = last.vals

C10_Witness ==
    /\ last.op = "Return"
    /\ last.vals = <<StrA, Nil>>
    /\ cpc = "returned"
    /\ resp.err = "nil"
    /\ resp.replies = <<StrA, Nil>>

\* C7: Continue writes a header with continue set, does not close the channel
\* and hands the call's channel to the handler; the caller sees
\* Response.Continue() true; a Send writes its value and no header; each side
\* receives what the other sent, in the order sent.
C7_ContinueKeepsOpen ==
    /\ last.op = "Continue" =>
          /\ hch = "ch"
          /\ last.st1 = "closed" => last.st0 = "closed"
          /\ last.err = "nil" => last.st1 = "open"
          /\ Written # <<>> => (Written[1].t = "hdr" /\ Written[1].h.C)
    /\ (cpc = "returned" /\ last.op = "Continue" /\ last.base = 0) =>
          IsContinue(resp.hdr)
    /\ (last.op = "Send" /\ last.err = "nil") => Written = <<ValItem(last.vals[1])>>
    /\ \A i \in 1..Len(got) : got[i] = DecodeAny(wire[1 + Len(resp.replies) + i])
    /\ Len(hgot) <= Len(inq)
    /\ \A i \in 1..Len(hgot) : hgot[i] = UpValue(i)
    /\ \A i \in 1..Len(inq) : inq[i] = ValItem(UpValue(i))

C7_Witness ==
    /\ last.op = "Send"
    /\ last.err = "nil"
    /\ chState = "open"
    /\ IsContinue(resp.hdr)
    /\ Len(wire) = 4
    /\ wire[4] = ValItem(StrA)
    /\ wire[3] = ValItem(Nil)
    /\ got = <<Nil, StrA>>
    /\ hgot = <<StrA>>

\* What a respond with the last operation's values sets out to write.
Expected == <<HdrItem(header)>> \o ValItems(atLeastOne(errorConvention(last.vals)))

\* C13: a respond whose send of the header or of a value fails returns that
\* error having written only what was sent before it, and does not close the
\* channel, Return included; the close is made only by a Return whose sends
\* all succeeded, and its error is then the result.
C13_PartialFailure ==
    IsRespond =>
        /\ last.err \in {"nil", "ESEND", "ECLOSE"}
        /\ Len(Written) <= Len(Expected)
        /\ Written = SubSeq(Expected, 1, Len(Written))
        /\ last.err = "ESEND" =>
              /\ Len(Written) < Len(Expected)
              /\ last.st1 = IF last.st0 = "open" THEN "broken" ELSE last.st0
        /\ last.err # "ESEND" => Written = Expected
        /\ (last.st1 = "closed" /\ last.st0 # "closed") =>
              (last.op = "Return" /\ last.err \in {"nil", "ECLOSE"})
        /\ last.err = "ECLOSE" => (last.op = "Return" /\ last.st1 = "closed")
        /\ (last.op = "Continue" /\ last.err = "nil") => last.st1 = last.st0

C13_Witness ==
    /\ last.op = "Return"
    /\ last.err = "ESEND"
    /\ Len(last.vals) = 2
    /\ Len(Written) = 2
    /\ last.st0 = "open"
    /\ chState = "broken"

\* C15: responded is false until the first Return/Continue, is set by every
\* Return/Continue whatever becomes of its sends, is never reset, and is left
\* alone by Send.
C15_RespondedOnce ==
    /\ [](last.op = "none" => ~responded)
    /\ [][/\ responded => responded'
          /\ (last' # last /\ last'.op \in {"Return", "Continue"}) => responded'
          /\ (last' # last /\ last'.op = "Send") => responded' = responded
          /\ last' = last => responded' = responded]_vars

C15_Witness ==
    /\ responded
    /\ last.op = "Continue"
    /\ last.err = "ESEND"
    /\ last.st0 = "open"
    /\ wire = <<>>

---------------------------------------------------------------------------
\* Properties of ReceiveNotify.

Returned == npc \in {"defer", "done"}

Closed(x) == \E i \in 1..Len(closes) : closes[i] = x

\* What ReceiveNotify delivered to the output channel, in order.
Delivered == taken \o out

ConvertEach(vs) == [i \in 1..Len(vs) |-> Convert(vs[i])]

Front(q) == SubSeq(q, 1, Len(q) - 1)

\* C8: ReceiveNotify has closed the Response and the output channel by the
\* time it has returned, and it does return (a) once the channel has ended,
\* (b) once a receive or a conversion fails, (c) once the context is done
\* when the select before a delivery runs.
C8_TerminatesAndCloses ==
    /\ [](npc = "done" => (Closed("resp") /\ Closed("ch")))
    /\ (npc = "recv" /\ src = <<>> /\ srcEnd) ~> (npc = "done")
    /\ (npc = "recv" /\ src # <<>> /\ ~ReceiveOk(Head(src))) ~> (npc = "done")
    /\ (npc = "conv" /\ ~ConvertOk(nv)) ~> (npc = "done")
    /\ (npc = "select" /\ ctxDone) ~> (npc = "done")

C8_Witness ==
    /\ npc = "done"
    /\ ctxDone
    /\ nret = "nil"
    /\ Closed("resp")
    /\ Closed("ch")

\* C9: a return on cancellation is a return of nil, with the element decoded
\* last not forwarded and nothing delivered after it; a receive error, a
\* conversion error and the end of the channel are returned as that error.
C9_GracefulCancel ==
    /\ nret \in {"none", "nil", "EOF", "EDECODE", "ECONV"}
    /\ Returned <=> nret # "none"
    /\ nret = "nil" =>
          /\ ctxDone
          /\ rcv # <<>>
          /\ ConvertOk(rcv[Len(rcv)])
          /\ Delivered = ConvertEach(Front(rcv))
    /\ (Returned /\ rcv # <<>> /\ ConvertOk(rcv[Len(rcv)]) /\ Len(Delivered) < Len(rcv))
          => nret = "nil"
    /\ nret = "EDECODE" <=> (Returned /\ rcv # <<>> /\ ~ReceiveOk(rcv[Len(rcv)]))
    /\ nret = "ECONV" <=>
          (Returned /\ rcv # <<>> /\ ReceiveOk(rcv[Len(rcv)]) /\ ~ConvertOk(rcv[Len(rcv)]))
    /\ nret = "EOF" => (src = <<>> /\ srcEnd /\ Delivered = ConvertEach(rcv))

C9_Witness ==
    /\ npc = "done"
    /\ nret = "nil"
    /\ rcv = <<"x", "y">>
    /\ Delivered = <<Convert("x")>>
    /\ src = <<>>

Received == SelectSeq(rcv, ReceiveOk)

\* C17 as stated: once ReceiveNotify is done it has delivered exactly the
\* values it received, and closed the Response and then the output channel.
C17_DeliversAllReceived ==
    npc = "done" =>
        /\ Delivered = ConvertEach(Received)
        /\ closes = <<"resp", "ch">>

\* C17: ReceiveNotify delivers the values it received in receive order, each
\* at most once, all of them but possibly the last, which is missing only
\* while in hand or when the return is due to cancellation or to the failed
\* conversion of that value; it closes the Response once, then the output
\* channel once, and delivers nothing after that.
C17_DeliversPrefix ==
    /\ Len(Delivered) <= Len(Received)
    /\ Delivered = ConvertEach(SubSeq(Received, 1, Len(Delivered)))
    /\ Len(Received) <= Len(Delivered) + 1
    /\ (Returned /\ Len(Delivered) < Len(Received)) => nret \in {"nil", "ECONV"}
    /\ nret \in {"EOF", "EDECODE"} => Delivered = ConvertEach(Received)
    /\ closes \in {<<>>, <<"resp">>, <<"resp", "ch">>}
    /\ npc = "done" => closes = <<"resp", "ch">>
    /\ closes # <<>> => Returned

C17_Witness ==
    /\ npc = "done"
    /\ nret = "EOF"
    /\ closes = <<"resp", "ch">>
    /\ rcv = <<"x", "y">>
    /\ Delivered = <<Convert("x"), Convert("y")>>

---------------------------------------------------------------------------
\* Properties of the interop service's handlers.

Failed == hrecv = "err" \/ hcb = "err"

Succeeded == hrecv = "ok" /\ hcb = "ok"

\* C16 as stated: a Unary that has returned made exactly one callback call;
\* after a failure it has written nothing and closed nothing, after success
\* it has called Return once with the callback's reply.
C16_OneCallbackPerInvocation ==
    (hsel = "Unary" /\ hpc = "done") =>
        /\ ncb = 1
        /\ Failed => (wire = <<>> /\ chState = "open" /\ nresp = 0)
        /\ Succeeded => (nresp = 1 /\ last.op = "Return" /\ last.vals = <<ret>>)

\* C16: Unary makes at most one callback call, and makes it exactly when the
\* parameter was received; it calls Return only after both the receive and
\* the callback call succeeded, then once, with the callback's reply; after
\* either failure it returns having written nothing and closed nothing.
C16_UnaryRespondsOnSuccess ==
    hsel = "Unary" =>
        /\ ncb <= 1
        /\ nresp <= 1
        /\ ncb = 1 <=> hcb # "none"
        /\ hcb # "none" => hrecv = "ok"
        /\ hpc = "done" => (ncb = 1 <=> hrecv = "ok")
        /\ (wire # <<>> \/ responded \/ nresp > 0 \/ chState # "open") => Succeeded
        /\ (hpc = "done" /\ Failed) =>
              (wire = <<>> /\ chState = "open" /\ nresp = 0 /\ last = NoOp)
        /\ (hpc = "done" /\ Succeeded) =>
              (nresp = 1 /\ last.op = "Return" /\ last.vals = <<ret>> /\ last.base = 0)
        /\ hpc = "done" => (Failed \/ Succeeded)

C16_Witness ==
    /\ hsel = "Unary"
    /\ hpc = "done"
    /\ ncb = 1
    /\ nresp = 1
    /\ ret = StrA
    /\ wire = <<HdrItem(ResponseHeader), ValItem(StrA)>>
    /\ chState = "closed"

\* C12: in Stream the end of the inbound direction reaches the callback as a
\* CloseWrite, and neither the call's channel nor the callback's stream is
\* closed by the handler before both pump directions have finished.
C12_NoCloseBeforeBothDone ==
    hsel = "Stream" =>
        /\ bpc = "done" => ncw = 1
        /\ bpc # "done" => ncw = 0
        /\ hcl # <<>> => (hpc \in {"defer", "done"} /\ bpc = "done")

\* C18: a Stream that has returned after its Continue succeeded has closed
\* the callback's stream and the call's channel; it does return once its
\* loop is left, and its background goroutine then ends, having called
\* CloseWrite on the callback's stream.
C18_StreamClosesBoth ==
    /\ []((hsel = "Stream" /\ hpc = "done" /\ bpc # "off") =>
            (hcl = <<"stream", "ch">> /\ sst = "closed" /\ chState = "closed"))
    /\ [](hcl # <<>> => hpc \in {"defer", "done"})
    /\ (hpc = "defer") ~> (hpc = "done")
    /\ (hsel = "Stream" /\ hpc = "done" /\ bpc # "off") ~> (bpc = "done" /\ ncw = 1)

C18_Witness ==
    /\ hsel = "Stream"
    /\ hpc = "done"
    /\ hcl = <<"stream", "ch">>
    /\ bpc = "done"
    /\ ncw = 1
    /\ cin # <<>>
    /\ ~cinEnd
    /\ sdownEnd

---------------------------------------------------------------------------
\* Properties of the frame Encoder.

SameMessage(a, b) == a.g = b.g /\ a.m = b.m

\* C19: Encode calls on one Encoder exclude each other: at most one
\* goroutine is between Lock and Unlock, and it holds the mutex; the bytes of
\* a message lie together in the writer, in order, with no byte of another
\* message between them; a goroutine that has returned from Encode, with or
\* without a write error, does not hold the mutex.
C19_EncodeExclusive ==
    /\ \A g, h \in Goroutines : (InCritical(g) /\ InCritical(h)) => g = h
    /\ \A g \in Goroutines : InCritical(g) <=> eholder = g
    /\ \A j, k \in 1..Len(ew) :
          (j < k /\ SameMessage(ew[j], ew[k])) =>
              \A l \in j..k : SameMessage(ew[l], ew[j]) /\ ew[l].i = ew[j].i + (l - j)
    /\ \A j \in 1..Len(ew) : (j = 1 \/ ~SameMessage(ew[j - 1], ew[j])) => ew[j].i = 1
    /\ \A g \in Goroutines : (epc[g] = "idle" /\ eerr[g] # "none") => eholder # g

C19_Witness ==
    /\ eholder = "none"
    /\ eerr["g1"] = "EWRITE"
    /\ eerr["g2"] = "nil"
    /\ ew = <<Byte("g1", 1, 1), Byte("g2", 1, 1), Byte("g2", 1, 2)>>

---------------------------------------------------------------------------
\* Properties of the two peers.

IsPrefix(a, b) == Len(a) <= Len(b) /\ a = SubSeq(b, 1, Len(a))

\* What is written on the channel of call c towards the called peer, and
\* towards the calling peer.
Request(c) == <<CallItem("hello"), ValItem(Nil)>>

Reply(c) == <<HdrItem(ResponseHeader), ValItem(HandlerValue(Other(c)))>>

\* C11: the call of each peer runs on the channel it opened: whatever stage
\* the other call is at, only the items of call c reach either side of its
\* channel, every frame in a pipe belongs to the call whose channel it names,
\* and a call that has returned has returned without error the value of the
\* other peer's handler, under a header with no error.
C11_BidirectionalCalls ==
    \A c \in Peers :
        /\ IsPrefix(preq[c], Request(c))
        /\ IsPrefix(prsp[c], Reply(c))
        /\ \A i \in 1..Len(pipe[c]) :
              LET f == pipe[c][i]
              IN IF f.ch = c
                 THEN \E j \in 1..Len(Request(c)) : f.item = Request(c)[j]
                 ELSE \E j \in 1..Len(Reply(f.ch)) : f.item = Reply(f.ch)[j]
        /\ pcall[c] = "done" =>
              /\ pret[c].err = "nil"
              /\ pret[c].val = Str(Other(c))
              /\ pret[c].hdr = ResponseHeader
              /\ phandler[c] = "returned"
              /\ pst[c] = "closed"
        /\ pcall[c] # "done" => pret[c] = NoReply

C11_Witness ==
    /\ pcall["A"] = "done"
    /\ pret["A"].val = Str("B")
    /\ pcall["B"] = "done"
    /\ pret["B"].val = Str("A")
    /\ preq["A"] = <<CallItem("hello")>>
    /\ pipe["A"] = <<Frame("A", ValItem(Nil))>>

====
